---- MODULE Spec2Model ----
(***************************************************************************)
(* Encrypted note store (src/app.py): a Flask CRUD resource over one       *)
(* table "notes", whose title and content columns hold the output of       *)
(* encrypt_text and are read back through decrypt_text.                    *)
(*                                                                         *)
(* Strings (plaintext and stored text alike) are sequences of code points. *)
(* A JSON request value is a record [kind, s]: kind "absent" when the key  *)
(* is not in the request body, "null" for JSON null, "str" for a string.   *)
(*                                                                         *)
(* Library behaviour the handlers rely on is modelled by what it does:     *)
(*   - str.encode/bytes.decode('utf-8'): one byte below 128, two bytes     *)
(*     below 2048;                                                         *)
(*   - Fernet: a token is version byte 128, an IV, the body (each byte     *)
(*     shifted by key and IV) and authentication bytes over key and        *)
(*     data; decrypt checks version and authentication. The IV is random,  *)
(*     so no new token equals an earlier one: tokens here carry one        *)
(*     representative IV, and the comparison that depends on the IV        *)
(*     (ChangedCols) takes every new token as different;                   *)
(*   - base64: two text symbols per byte over a 16-symbol alphabet;        *)
(*     decoding discards symbols outside the alphabet (validate=False)     *)
(*     and fails on a dangling symbol;                                     *)
(*   - the ORM's unit of work: commit issues UPDATE only for the columns   *)
(*     whose value differs from the value loaded, WHERE id = the key;      *)
(*   - SQLite rowid assignment (largest id + 1) against a PostgreSQL       *)
(*     sequence.                                                           *)
(***************************************************************************)
EXTENDS Integers, Sequences, FiniteSets, TLC

\* ---------------------------------------------------------------- bounds
MaxId == 2
MaxClock == 1
MaxKeys == 2
TicksPerSecond == 2

Clients == {1, 2}
Ids == 1..MaxId

\* ------------------------------------------------------------ JSON values
Absent == [kind |-> "absent", s |-> <<>>]
Null == [kind |-> "null", s |-> <<>>]
Str(s) == [kind |-> "str", s |-> s]

\* request bodies: {}, {"content": "é"}, {"title": "a", "content": "é"},
\* {"title": ""}, {"title": null}; "a" encodes to one byte, "é" to two
Bodies ==
    {[title |-> Absent, content |-> Absent],
     [title |-> Absent, content |-> Str(<<233>>)],
     [title |-> Str(<<97>>), content |-> Str(<<233>>)],
     [title |-> Str(<<>>), content |-> Absent],
     [title |-> Null, content |-> Absent]}

\* 'Untitled'
Untitled == <<85, 110, 116, 105, 116, 108, 101, 100>>
\* '[Decryption Error]'
DecryptionError == <<91, 68, 101, 99, 114, 121, 112, 116, 105, 111, 110, 32, 69, 114, 114, 111, 114, 93>>

\* data.get(key): no default, None when the key is absent
DataGetNoDefault(v, default) == IF v.kind = "absent" THEN Null ELSE v

\* data.get(key, default)
DataGet(v, default) == IF v.kind = "absent" THEN Str(default) ELSE v

\* Python truthiness of a request value: `not text`
Falsy(v) == v.kind = "null" \/ (v.kind = "str" /\ v.s = <<>>)

\* ------------------------------------------------------------------ codec
RECURSIVE Sum(_)
Sum(bs) == IF bs = <<>> THEN 0 ELSE Head(bs) + Sum(Tail(bs))

\* str.encode('latin-1'): one byte per code point
Latin1Encode(s) == s

RECURSIVE Utf8Encode(_)
Utf8Encode(s) ==
    IF s = <<>> THEN <<>>
    ELSE LET c == Head(s)
         IN (IF c < 128 THEN <<c>> ELSE <<192 + (c \div 64), 128 + (c % 64)>>)
            \o Utf8Encode(Tail(s))

\* [ok, s]: ok is FALSE where bytes.decode('utf-8') raises UnicodeDecodeError
RECURSIVE Utf8Decode(_)
Utf8Decode(bs) ==
    IF bs = <<>> THEN [ok |-> TRUE, s |-> <<>>]
    ELSE LET b == Head(bs)
         IN IF b < 128
            THEN LET r == Utf8Decode(Tail(bs))
                 IN [ok |-> r.ok, s |-> <<b>> \o r.s]
            ELSE IF b >= 194 /\ b < 224 /\ Len(bs) >= 2 /\ bs[2] >= 128 /\ bs[2] < 192
            THEN LET r == Utf8Decode(Tail(Tail(bs)))
                 IN [ok |-> r.ok, s |-> <<(b - 192) * 64 + (bs[2] - 128)>> \o r.s]
            ELSE [ok |-> FALSE, s |-> <<>>]

\* the authentication bytes over key and data: another key, or data changed in
\* one place, gives other bytes
Mac(k, data) == <<k % 256, Sum(data) % 256>>

\* cipher.encrypt(bytes): version, IV, body, authentication bytes
FernetEncrypt(k, iv, bs) ==
    LET body == [i \in 1..Len(bs) |-> (bs[i] + k + iv) % 256]
        data == <<128, iv>> \o body
    IN data \o Mac(k, data)

\* cipher.decrypt(token): [ok, bs]; ok is FALSE where InvalidToken is raised
FernetDecrypt(k, tok) ==
    IF Len(tok) < 4 \/ tok[1] # 128
       \/ SubSeq(tok, Len(tok) - 1, Len(tok)) # Mac(k, SubSeq(tok, 1, Len(tok) - 2))
    THEN [ok |-> FALSE, bs |-> <<>>]
    ELSE [ok |-> TRUE,
          bs |-> [i \in 1..(Len(tok) - 4) |-> (tok[i + 2] - k - tok[2]) % 256]]

\* the text alphabet of the encoding: '0'..'9', 'a'..'f'
Symbol(d) == IF d < 10 THEN 48 + d ELSE 87 + d
IsSymbol(c) == (c >= 48 /\ c <= 57) \/ (c >= 97 /\ c <= 102)
Digit(c) == IF c <= 57 THEN c - 48 ELSE c - 87

\* base64.b64encode(bytes).decode('utf-8')
B64Encode(bs) ==
    [i \in 1..(2 * Len(bs)) |->
        IF i % 2 = 1 THEN Symbol(bs[(i + 1) \div 2] \div 16)
        ELSE Symbol(bs[i \div 2] % 16)]

Pairs(ds) ==
    [i \in 1..(Len(ds) \div 2) |-> 16 * Digit(ds[2 * i - 1]) + Digit(ds[2 * i])]

\* base64.b64decode(text): [ok, bs]; symbols outside the alphabet are
\* discarded, a dangling symbol raises binascii.Error
B64Decode(text) ==
    LET ds == SelectSeq(text, IsSymbol)
    IN IF Len(ds) % 2 # 0 THEN [ok |-> FALSE, bs |-> <<>>]
       ELSE [ok |-> TRUE, bs |-> Pairs(ds)]

\* encrypt_text that stores its input as it is
encrypt_text_plain(v, k) == IF Falsy(v) THEN <<>> ELSE v.s

\* encrypt_text(text) under key k
encrypt_text(v, k) ==
    IF Falsy(v) THEN <<>>
    ELSE B64Encode(FernetEncrypt(k, 7, Utf8Encode(v.s)))

\* the try block of decrypt_text: [ok, s], ok FALSE where it raises
DecryptAttempt(text, k) ==
    LET raw == B64Decode(text)
    IN IF ~raw.ok THEN [ok |-> FALSE, s |-> <<>>]
       ELSE LET dec == FernetDecrypt(k, raw.bs)
            IN IF ~dec.ok THEN [ok |-> FALSE, s |-> <<>>]
               ELSE Utf8Decode(dec.bs)

\* decrypt_text whose except branch returns the empty string
decrypt_text_blank(text, k) ==
    IF text = <<>> THEN <<>>
    ELSE LET r == DecryptAttempt(text, k)
         IN IF r.ok THEN r.s ELSE <<>>

\* decrypt_text(encrypted_text) under key k
decrypt_text(text, k) ==
    IF text = <<>> THEN <<>>
    ELSE LET r == DecryptAttempt(text, k)
         IN IF r.ok THEN r.s ELSE DecryptionError

\* ---------------------------------------------------- the codec, tabulated
\* encrypt_text and decrypt_text are pure: they are computed once over the
\* keys, the values requests carry and the texts a column can hold, and the
\* handlers look the results up
Keys == 1..MaxKeys

\* the values from_dict and update_note hand to encrypt_text
Values == UNION {{DataGet(b.title, Untitled), DataGet(b.content, <<>>)} : b \in Bodies}

Encrypted == [k \in Keys |-> [v \in Values |-> encrypt_text(v, k)]]

\* one symbol of a stored text changed at position p, or the last symbol cut
Tamper(text, how) ==
    IF how = "truncate" THEN SubSeq(text, 1, Len(text) - 1)
    ELSE LET p == IF how = "first" THEN 1 ELSE Len(text)
         IN [text EXCEPT ![p] = Symbol((Digit(text[p]) + 1) % 16)]

Hows == {"first", "last", "truncate"}

\* the texts a column can hold: what encrypt_text wrote, or that text damaged
Tokens == {Encrypted[k][v] : k \in Keys, v \in Values}
StoredTexts == Tokens \cup {Tamper(t, how) : t \in Tokens \ {<<>>}, how \in Hows}

Decrypted == [k \in Keys |-> [t \in StoredTexts |-> decrypt_text(t, k)]]

\* ------------------------------------------------------------------ state
VARIABLES
    backend,      \* the database behind SQLALCHEMY_DATABASE_URI
    key,          \* ENCRYPTION_KEY of the running process
    keyFile,      \* contents of secret.key, 0 when the file does not exist
    clock,        \* datetime.utcnow()
    seq,          \* PostgreSQL: last value of the id sequence
    store,        \* table notes: id -> row
    written,      \* history: id -> the texts last handed to encrypt_text for the row, and the key
    damaged,      \* history: <<id, column>> changed outside the application
    deleted,      \* history: ids a delete_note removed
    last,         \* the last request handled whole, and its response
    req,          \* update_note requests in progress, per client
    lastCommit    \* history: client whose db.session.commit() ran last

vars == <<backend, key, keyFile, clock, seq, store, written, damaged, deleted, last, req, lastCommit>>

Cols == {"title_encrypted", "content_encrypted", "timestamp"}
TextCols == {"title_encrypted", "content_encrypted"}

NoRow == [title_encrypted |-> <<>>, content_encrypted |-> <<>>, timestamp |-> 0]
NoData == [title |-> Absent, content |-> Absent]
NoBefore == [title |-> <<>>, content |-> <<>>]

Max(S) == CHOOSE m \in S : \A x \in S : x <= m
Min(S) == CHOOSE m \in S : \A x \in S : m <= x

\* Note.query.count()
count_notes(st) == Cardinality(DOMAIN st)

\* the two assignments, an omitted field keeping the row's value
from_dict_partial(note, data, k) ==
    [note EXCEPT
       !.title_encrypted = IF data.title = Absent THEN note.title_encrypted
                           ELSE Encrypted[k][data.title],
       !.content_encrypted = IF data.content = Absent THEN note.content_encrypted
                             ELSE Encrypted[k][data.content]]

\* the two assignments of Note.from_dict and of update_note, over a row
\* (a new Note for from_dict)
from_dict(note, data, k) ==
    [note EXCEPT
       !.title_encrypted = Encrypted[k][DataGet(data.title, Untitled)],
       !.content_encrypted = Encrypted[k][DataGet(data.content, <<>>)]]

\* the text of a request value as encrypt_text takes it: nothing for a falsy one
Plain(v) == IF Falsy(v) THEN <<>> ELSE v.s

\* the texts of the two fields a request writes, and the key they are written under
Supplied(data, k) ==
    [title |-> Plain(DataGet(data.title, Untitled)), content |-> Plain(DataGet(data.content, <<>>)), key |-> k]

\* strftime('%Y-%m-%d %H:%M:%S'): whole seconds
Strftime(ts) == ts \div TicksPerSecond

\* Note.to_dict
to_dict(id, row, k) ==
    [id |-> id,
     title |-> Decrypted[k][row.title_encrypted],
     content |-> Decrypted[k][row.content_encrypted],
     timestamp |-> Strftime(row.timestamp)]

\* Note.query.first(): whatever row comes first
QueryFirst(st, id) ==
    IF DOMAIN st = {} THEN [found |-> FALSE, id |-> id]
    ELSE [found |-> TRUE, id |-> Min(DOMAIN st)]

\* Note.query.get_or_404(note_id): found is FALSE where it aborts with 404
get_or_404(st, id) == [found |-> id \in DOMAIN st, id |-> id]

\* INSERT assigns the primary key: SQLite's rowid is the largest rowid + 1,
\* PostgreSQL draws from the column's sequence
NextId ==
    IF backend = "sqlite"
    THEN (IF DOMAIN store = {} THEN 1 ELSE Max(DOMAIN store) + 1)
    ELSE seq + 1

\* the columns the unit of work finds changed since the row was loaded: those
\* whose value differs from the loaded one, as every new token does
ChangedCols(loaded, new) ==
    {c \in Cols : new[c] # loaded[c] \/ (c \in TextCols /\ new[c] # <<>>)}

\* UPDATE notes SET <changed columns> WHERE id = :id
Flush(st, id, loaded, new) ==
    [st EXCEPT ![id] = [c \in Cols |-> IF c \in ChangedCols(loaded, new) THEN new[c] ELSE st[id][c]]]

Injective(f) == \A i, j \in DOMAIN f : i # j => f[i] # f[j]

Orderings(st) == {f \in [1..Cardinality(DOMAIN st) -> DOMAIN st] : Injective(f)}

\* ORDER BY timestamp ASC
OrderByTimestampAsc(st) ==
    {f \in Orderings(st) : \A i, j \in DOMAIN f : i < j => st[f[i]].timestamp <= st[f[j]].timestamp}

\* Note.query.order_by(Note.timestamp.desc()).all(): every order the ORDER BY
\* allows; rows with equal timestamps come in an order SQL leaves open
OrderByTimestampDesc(st) ==
    {f \in Orderings(st) : \A i, j \in DOMAIN f : i < j => st[f[i]].timestamp >= st[f[j]].timestamp}

\* datetime.utcnow() as read by one handler
Now == {clock, clock + 1} \cap (0..MaxClock)

Response(op, id, data, status, body, before, n) ==
    [op |-> op, id |-> id, title |-> data.title, content |-> data.content,
     status |-> status, body |-> body, before |-> before, notes_count |-> n]

IdleReq == [pc |-> "idle", id |-> 0, data |-> NoData, loaded |-> NoRow, new |-> NoRow, status |-> 0]

Init ==
    /\ backend \in {"sqlite", "postgresql"}
    /\ key = 1
    /\ keyFile = 1
    /\ clock = 0
    /\ seq = 0
    /\ store = <<>>
    /\ written = <<>>
    /\ damaged = {}
    /\ deleted = {}
    /\ last = Response("none", 0, NoData, 0, <<>>, NoBefore, 0)
    /\ req = [c \in Clients |-> IdleReq]
    /\ lastCommit = 0

Extend(f, id, v) == [i \in DOMAIN f \cup {id} |-> IF i = id THEN v ELSE f[i]]
Remove(f, id) == [i \in DOMAIN f \ {id} |-> f[i]]

\* ------------------------------------------------- handlers, run whole
\* GET /api/notes
GetNotes ==
    /\ \E f \in OrderByTimestampDesc(store) :
         last' = Response("list", 0, NoData, 200,
                          [i \in DOMAIN f |-> to_dict(f[i], store[f[i]], key)], NoBefore, 0)
    /\ UNCHANGED <<backend, key, keyFile, clock, seq, store, written, damaged, deleted, req, lastCommit>>

\* POST /api/notes
CreateNote(data) ==
    /\ NextId <= MaxId
    /\ \E now \in Now :
         LET id == NextId
             row == [from_dict(NoRow, data, key) EXCEPT !.timestamp = now]
         IN /\ clock' = now
            /\ store' = Extend(store, id, row)
            /\ seq' = IF backend = "sqlite" THEN seq ELSE id
            /\ written' = Extend(written, id, Supplied(data, key))
            /\ last' = Response("create", id, data, 201, <<to_dict(id, row, key)>>, NoBefore, 0)
    /\ UNCHANGED <<backend, key, keyFile, damaged, deleted, req, lastCommit>>

\* PUT /api/notes/<id>; request.json is read once the note is found
UpdateNote(id, data) ==
    LET q == get_or_404(store, id)
    IN IF ~q.found
       THEN /\ last' = Response("update", id, NoData, 404, <<>>, NoBefore, 0)
            /\ UNCHANGED <<backend, key, keyFile, clock, seq, store, written, damaged, deleted, req, lastCommit>>
       ELSE \E now \in Now :
              LET loaded == store[q.id]
                  new == [from_dict(loaded, data, key) EXCEPT !.timestamp = now]
                  st == Flush(store, q.id, loaded, new)
              IN /\ clock' = now
                 /\ store' = st
                 /\ written' = [written EXCEPT ![q.id] = Supplied(data, key)]
                 /\ damaged' = damaged \ ({q.id} \X TextCols)
                 /\ last' = Response("update", id, data, 200, <<to_dict(q.id, st[q.id], key)>>,
                                     [title |-> Decrypted[key][loaded.title_encrypted],
                                      content |-> Decrypted[key][loaded.content_encrypted]], 0)
                 /\ UNCHANGED <<backend, key, keyFile, seq, deleted, req, lastCommit>>

\* DELETE /api/notes/<id>
DeleteNote(id) ==
    LET q == get_or_404(store, id)
    IN IF ~q.found
       THEN /\ last' = Response("delete", id, NoData, 404, <<>>, NoBefore, 0)
            /\ UNCHANGED <<backend, key, keyFile, clock, seq, store, written, damaged, deleted, req, lastCommit>>
       ELSE /\ store' = Remove(store, q.id)
            /\ written' = Remove(written, q.id)
            /\ damaged' = damaged \ ({q.id} \X TextCols)
            /\ deleted' = deleted \cup {q.id}
            /\ last' = Response("delete", id, NoData, 204, <<>>, NoBefore, 0)
            /\ UNCHANGED <<backend, key, keyFile, clock, seq, req, lastCommit>>

\* GET /api/health
HealthCheck ==
    /\ last' = Response("health", 0, NoData, 200, <<>>, NoBefore, count_notes(store))
    /\ UNCHANGED <<backend, key, keyFile, clock, seq, store, written, damaged, deleted, req, lastCommit>>

Next ==
    \/ GetNotes
    \/ \E data \in Bodies : CreateNote(data)
    \/ \E id \in Ids, data \in Bodies : UpdateNote(id, data)
    \/ \E id \in Ids : DeleteNote(id)
    \/ HealthCheck

Spec == Init /\ [][Next]_vars

\* ------------------------------------- faults outside the request handlers
NoResponse == Response("none", 0, NoData, 0, <<>>, NoBefore, 0)

\* get_or_create_key(): the key file's bytes, or a generated key written to it
get_or_create_key(file, generated) ==
    IF file # 0 THEN [key |-> file, file |-> file]
    ELSE [key |-> generated, file |-> generated]

\* secret.key is removed from the working directory
KeyFileLost ==
    /\ keyFile # 0
    /\ keyFile' = 0
    /\ last' = NoResponse
    /\ UNCHANGED <<backend, key, clock, seq, store, written, damaged, deleted, req, lastCommit>>

\* the process starts again: lines 25-26 run get_or_create_key
Restart ==
    /\ keyFile # 0 \/ key < MaxKeys
    /\ LET r == get_or_create_key(keyFile, key + 1)
       IN /\ key' = r.key
          /\ keyFile' = r.file
    /\ last' = NoResponse
    /\ UNCHANGED <<backend, clock, seq, store, written, damaged, deleted, req, lastCommit>>

\* a stored column is changed behind the application's back
Corrupt(id, col, how) ==
    /\ id \in DOMAIN store
    /\ damaged = {}
    /\ store[id][col] # <<>>
    /\ store' = [store EXCEPT ![id][col] = Tamper(store[id][col], how)]
    /\ damaged' = {<<id, col>>}
    /\ last' = NoResponse
    /\ UNCHANGED <<backend, key, keyFile, clock, seq, written, deleted, req, lastCommit>>

\* notes are created and listed while the faults occur
NextFault ==
    \/ GetNotes
    \/ \E data \in Bodies : CreateNote(data)
    \/ KeyFileLost
    \/ Restart
    \/ \E id \in Ids, col \in TextCols, how \in Hows : Corrupt(id, col, how)

SpecFault == Init /\ [][NextFault]_vars

\* --------------------------------- update_note, one statement at a time
\* line 108: Note.query.get_or_404(note_id)
UpdBegin(c, id) ==
    /\ req[c].pc = "idle"
    /\ LET q == get_or_404(store, id)
       IN IF ~q.found
          THEN req' = [req EXCEPT ![c] = [@ EXCEPT !.pc = "done", !.id = id, !.status = 404]]
          ELSE req' = [req EXCEPT ![c] = [@ EXCEPT !.pc = "loaded", !.id = q.id, !.loaded = store[q.id]]]
    /\ UNCHANGED <<backend, key, keyFile, clock, seq, store, written, damaged, deleted, last, lastCommit>>

\* lines 109-114: the request body is read and the three attributes are set
UpdAssign(c, data) ==
    /\ req[c].pc = "loaded"
    /\ \E now \in Now :
            /\ clock' = now
            /\ req' = [req EXCEPT ![c] = [@ EXCEPT !.pc = "assigned", !.data = data,
                           !.new = [from_dict(req[c].loaded, data, key) EXCEPT !.timestamp = now]]]
    /\ UNCHANGED <<backend, key, keyFile, seq, store, written, damaged, deleted, last, lastCommit>>

\* line 116: db.session.commit() flushes the changed columns and expires the
\* loaded attributes; an UPDATE that matches no row raises StaleDataError
UpdCommit(c) ==
    /\ req[c].pc = "assigned"
    /\ LET r == req[c]
           cols == ChangedCols(r.loaded, r.new)
           sup == Supplied(r.data, key)
       IN IF cols # {} /\ r.id \notin DOMAIN store
          THEN /\ req' = [req EXCEPT ![c] = [@ EXCEPT !.pc = "done", !.status = 500,
                                                     !.loaded = NoRow, !.new = NoRow]]
               /\ UNCHANGED <<store, written, lastCommit>>
          ELSE /\ req' = [req EXCEPT ![c] = [@ EXCEPT !.pc = "committed",
                                                     !.loaded = NoRow, !.new = NoRow]]
               /\ lastCommit' = c
               /\ IF cols = {}
                  THEN UNCHANGED <<store, written>>
                  ELSE /\ store' = Flush(store, r.id, r.loaded, r.new)
                       /\ written' = [written EXCEPT ![r.id] =
                              [title |-> IF "title_encrypted" \in cols THEN sup.title ELSE @.title,
                               content |-> IF "content_encrypted" \in cols THEN sup.content ELSE @.content,
                               key |-> key]]
    /\ UNCHANGED <<backend, key, keyFile, clock, seq, damaged, deleted, last>>

\* line 117: note.to_dict() reloads the row, expired by the commit; a row
\* that is gone raises ObjectDeletedError
UpdRespond(c) ==
    /\ req[c].pc = "committed"
    /\ req' = [req EXCEPT ![c] = [@ EXCEPT !.pc = "done",
                   !.status = IF req[c].id \in DOMAIN store THEN 200 ELSE 500]]
    /\ UNCHANGED <<backend, key, keyFile, clock, seq, store, written, damaged, deleted, last, lastCommit>>

\* the states one create_note leaves behind: the note the requests race on
InitRace ==
    /\ backend \in {"sqlite", "postgresql"}
    /\ key = 1
    /\ keyFile = 1
    /\ clock = 0
    /\ seq = IF backend = "sqlite" THEN 0 ELSE 1
    /\ \E data \in Bodies :
         LET row == [from_dict(NoRow, data, 1) EXCEPT !.timestamp = 0]
         IN /\ store = (1 :> row)
            /\ written = (1 :> Supplied(data, 1))
            /\ last = Response("create", 1, data, 201, <<to_dict(1, row, 1)>>, NoBefore, 0)
    /\ damaged = {}
    /\ deleted = {}
    /\ req = [c \in Clients |-> IdleReq]
    /\ lastCommit = 0

NextRace ==
    \/ \E id \in Ids : DeleteNote(id)
    \/ \E c \in Clients, id \in Ids : UpdBegin(c, id)
    \/ \E c \in Clients, data \in Bodies : UpdAssign(c, data)
    \/ \E c \in Clients : UpdCommit(c)
    \/ \E c \in Clients : UpdRespond(c)

SpecRace == InitRace /\ [][NextRace]_vars

\* ================================================================ claims
OkWrite == last.op \in {"create", "update"} /\ last.status \in {200, 201}

\* C1: once delete_note(id) has succeeded, every later update_note(id) and
\* delete_note(id) answers 404, whatever requests come in between.
C1_DeletedStaysGone ==
    [][(last'.op \in {"update", "delete"} /\ last'.id \in deleted) => last'.status = 404]_vars

\* C2: update_note and delete_note on an id that is not in the table answer 404
\* and leave the table as it was: no row changed, added or removed, the same count.
C2_NotFoundLeavesStore ==
    [][(last'.op \in {"update", "delete"} /\ last'.id \notin DOMAIN store)
         => (last'.status = 404 /\ store' = store /\ count_notes(store') = count_notes(store))]_vars

C2_Witness ==
    /\ last.op = "update"
    /\ last.status = 404
    /\ store # <<>>

\* C3: a create_note or update_note whose request omits the title answers a view
\* titled 'Untitled', and one that omits the content a view with content '',
\* whatever the note held before.
C3_Defaults ==
    OkWrite =>
      /\ last.title = Absent => last.body[1].title = Untitled
      /\ last.content = Absent => last.body[1].content = <<>>

C3_Witness ==
    /\ last.op = "update"
    /\ last.status = 200
    /\ last.title = Absent
    /\ last.content = Absent
    /\ last.before.title = <<97>>
    /\ last.before.content = <<233>>

ListedIds == {last.body[i].id : i \in DOMAIN last.body}

\* C4 (amended): list_notes returns every stored note exactly once, most recent
\* timestamp first; the order among notes of equal timestamp is not fixed.
C4_ListSortedComplete ==
    last.op = "list" =>
      /\ Len(last.body) = count_notes(store)
      /\ ListedIds = DOMAIN store
      /\ \A i, j \in DOMAIN last.body :
           i < j => store[last.body[i].id].timestamp >= store[last.body[j].id].timestamp

\* C4 as claimed: list_notes returns every stored note exactly once, most recent
\* first, and notes of equal timestamp in insertion order.
C4_StableTies ==
    last.op = "list" =>
      /\ Len(last.body) = count_notes(store)
      /\ ListedIds = DOMAIN store
      /\ \A i, j \in DOMAIN last.body :
           i < j => \/ store[last.body[i].id].timestamp > store[last.body[j].id].timestamp
                    \/ /\ store[last.body[i].id].timestamp = store[last.body[j].id].timestamp
                       /\ last.body[i].id < last.body[j].id

C4_Witness ==
    /\ last.op = "list"
    /\ Len(last.body) = 2
    /\ last.body[1].id < last.body[2].id
    /\ store[last.body[1].id].timestamp > store[last.body[2].id].timestamp

\* a text that decodes to a token the cipher accepts under key k
IsToken(text, k) ==
    LET raw == B64Decode(text)
    IN raw.ok /\ FernetDecrypt(k, raw.bs).ok

\* C5: every stored title_encrypted and content_encrypted is an output of
\* encrypt_text, and never equals the non-empty text it was written from.
C5_StorageOpaque ==
    \A id \in DOMAIN store :
      /\ written[id].title # <<>> =>
           /\ store[id].title_encrypted # written[id].title
           /\ IsToken(store[id].title_encrypted, written[id].key)
      /\ written[id].content # <<>> =>
           /\ store[id].content_encrypted # written[id].content
           /\ IsToken(store[id].content_encrypted, written[id].key)

C5_Witness ==
    \E id \in DOMAIN store :
      /\ written[id].title = <<97>>
      /\ written[id].content = <<233>>

\* C6: decrypt_text(encrypt_text(s)) = s for non-empty s, the empty text is
\* stored and read as the empty text, and so the view create_note or update_note
\* answers and every list_notes entry show the title and content last written.
C6_RoundTrip ==
    /\ \A id \in DOMAIN store :
         /\ decrypt_text(store[id].title_encrypted, key) = written[id].title
         /\ decrypt_text(store[id].content_encrypted, key) = written[id].content
         /\ written[id].title = <<>> => store[id].title_encrypted = <<>>
         /\ written[id].content = <<>> => store[id].content_encrypted = <<>>
    /\ OkWrite =>
         /\ last.body[1].title = written[last.id].title
         /\ last.body[1].content = written[last.id].content
    /\ last.op = "list" =>
         \A i \in DOMAIN last.body :
           /\ last.body[i].title = written[last.body[i].id].title
           /\ last.body[i].content = written[last.body[i].id].content

C6_Witness ==
    /\ last.op = "list"
    /\ \E i \in DOMAIN last.body :
         /\ last.body[i].title = <<97>>
         /\ last.body[i].content = <<233>>
    /\ \E i \in DOMAIN last.body :
         /\ last.body[i].title = <<>>
         /\ last.body[i].content = <<>>

\* what a field's view must read: nothing for an empty column, the sentinel for
\* a column that was tampered with or written under another key, its text otherwise
ExpectedView(id, col, text) ==
    IF store[id][col] = <<>> THEN <<>>
    ELSE IF <<id, col>> \in damaged \/ written[id].key # key THEN DecryptionError
    ELSE text

\* C7: list_notes answers 200 with every note whatever cannot be decrypted; a
\* field that cannot be decrypted reads '[Decryption Error]', and every other
\* field, of the same note and of the others, reads its text.
C7_FailSoft ==
    last.op = "list" =>
      /\ last.status = 200
      /\ ListedIds = DOMAIN store
      /\ \A i \in DOMAIN last.body :
           LET id == last.body[i].id
           IN /\ last.body[i].title = ExpectedView(id, "title_encrypted", written[id].title)
              /\ last.body[i].content = ExpectedView(id, "content_encrypted", written[id].content)

C7_Witness ==
    /\ last.op = "list"
    /\ damaged # {}
    /\ Len(last.body) = 2
    /\ \E i \in DOMAIN last.body :
         /\ last.body[i].title = DecryptionError
         /\ last.body[i].content = <<233>>
    /\ \E i \in DOMAIN last.body :
         /\ last.body[i].title = <<97>>
         /\ last.body[i].content = <<233>>

\* the ids create_note has assigned: those stored and those deleted since
Assigned == DOMAIN store \cup deleted

\* C8: the id a create_note is assigned is greater than every id an earlier
\* create_note was assigned, deleted notes' ids included.
C8_IdsMonotonic ==
    [][last'.op = "create" => \A id \in Assigned : last'.id > id]_vars

\* C9 (amended): a stored title_encrypted is empty exactly when the request that
\* wrote it gave an empty or null title; an omitted title and a non-empty title
\* are stored as non-empty ciphertext.
C9_TitleEmptyOnlyIfGivenEmpty ==
    /\ \A id \in DOMAIN store : store[id].title_encrypted = <<>> <=> written[id].title = <<>>
    /\ OkWrite => (store[last.id].title_encrypted = <<>> <=> Falsy(last.title))

\* C9 as claimed: every stored title_encrypted is non-empty, whatever title the
\* request gave.
C9_TitleNeverEmpty ==
    \A id \in DOMAIN store : store[id].title_encrypted # <<>>

C9_Witness ==
    /\ last.op = "update"
    /\ last.status = 200
    /\ last.title = Absent
    /\ last.before.title = <<>>
    /\ store[last.id].title_encrypted # <<>>
    /\ \E id \in DOMAIN store : store[id].title_encrypted = <<>>

\* the text a request gives a field
Given(c) == Supplied(req[c].data, key)

\* C10: when two update_note requests on the same note have both answered 200,
\* the note holds the title and the content of the request that committed last.
C10_LastWriteWins ==
    (/\ \A c \in Clients : req[c].pc = "done" /\ req[c].status = 200
     /\ req[1].id = req[2].id
     /\ deleted = {})
    => LET id == req[lastCommit].id
       IN /\ decrypt_text(store[id].title_encrypted, key) = Given(lastCommit).title
          /\ decrypt_text(store[id].content_encrypted, key) = Given(lastCommit).content

====
